---- MODULE Spec2Model ----
(***************************************************************************)
(* State-machine model of py_cold_clear (src/__init__.py): the CCHandle    *)
(* wrapper around the Cold Clear C library.  The wrapper's methods are     *)
(* translated from their Python code.  The library behind the cc_*         *)
(* functions is not part of the repository; its behaviour is modelled from *)
(* the interface description (spec.md sections 4 to 7) and the docstrings  *)
(* the wrapper carries, and every definition of that kind is named Engine* *)
(* or cc_*.                                                                *)
(***************************************************************************)
EXTENDS Integers, Sequences, FiniteSets, TLC

(***************************************************************************)
(* Bounds of the model.                                                    *)
(***************************************************************************)
MaxAdds == 2       \* pieces the host appends at most in one behaviour
MaxCap == 1        \* largest plan capacity the host passes
MaxMoves == 2      \* moves the engine chooses at most on one board
MaxResets == 1     \* resets the engine carries out at most in one behaviour
MaxTerminates == 2 \* explicit terminate calls at most in one behaviour
MaxOwed == 2       \* unanswered requests counted; further ones are not counted

(***************************************************************************)
(* Program constants.                                                      *)
(***************************************************************************)
FieldWidth == 10
FieldHeight == 40
FieldCells == 400
Limb == 65536      \* a Python int n is the pair <<n \div 2^16, n % 2^16>>

\* class CCPiece(enum.IntEnum)
CCPiece == 0 .. 6
\* class CCBotPollStatus(enum.IntEnum)
WAITING == 1
\* MOVE_PROVIDED and DEAD, were the value of WAITING given to them.
MOVE_PROVIDED_swapped == WAITING
MOVE_PROVIDED == 0
DEAD_swapped == WAITING
DEAD == 2

\* The status codes of the C interface (spec.md section 6).
CC_MOVE_PROVIDED == 0
CC_WAITING == 1
CC_BOT_DEAD == 2

None == "None"
\* None where the other values are records, and where they are pieces
Nothing == [none |-> TRUE]
NoPiece == -1
Live == "handle"   \* the pointer cc_launch_async returned

Min(a, b) == IF a < b THEN a ELSE b

(***************************************************************************)
(* ctypes conversions.                                                     *)
(***************************************************************************)
\* ctypes.c_bool(v) and the c_bool array setter: the truth value of v, as a
\* byte.  Python's False and True are the integers 0 and 1.
c_bool(v) == IF v = 0 THEN 0 ELSE 1

\* ctypes.c_uint32(n): no overflow check, the value is reduced modulo 2^32.
\* n is a non-negative Python int in two 16-bit limbs, high limb unbounded.
c_uint32(n) == <<n[1] % Limb, n[2]>>

(***************************************************************************)
(* CCHandle.reset, lines 216-219: the 400-cell c_bool buffer.  The buffer  *)
(* is represented by the set of the indices of its cells that hold True;   *)
(* (ctypes.c_bool * 400)() starts with every cell False.                   *)
(***************************************************************************)
EmptyBuffer == {}
Cell(buf, i) == IF i \in buf THEN 1 ELSE 0

\* reset_row, were the index computed as y + x * 10.
RECURSIVE reset_row_transposed(_, _, _, _)
reset_row_transposed(raw, row, y, x) ==
    IF ~raw.ok \/ x >= Len(row) THEN raw
    ELSE LET i == y + x * FieldWidth IN
         IF i >= FieldCells THEN [ok |-> FALSE, buf |-> raw.buf]
         ELSE reset_row_transposed([ok |-> TRUE,
                         buf |-> IF c_bool(row[x + 1]) = 1
                                 THEN raw.buf \cup {i} ELSE raw.buf \ {i}],
                        row, y, x + 1)

\* `for x, cell in enumerate(row): raw_field[x + y * 10] = cell`, from x on.
\* An index outside the buffer raises IndexError (ok becomes FALSE).
RECURSIVE reset_row(_, _, _, _)
reset_row(raw, row, y, x) ==
    IF ~raw.ok \/ x >= Len(row) THEN raw
    ELSE LET i == x + y * FieldWidth IN
         IF i >= FieldCells THEN [ok |-> FALSE, buf |-> raw.buf]
         ELSE reset_row([ok |-> TRUE,
                         buf |-> IF c_bool(row[x + 1]) = 1
                                 THEN raw.buf \cup {i} ELSE raw.buf \ {i}],
                        row, y, x + 1)

\* `for y, row in enumerate(field)`, from y on.
RECURSIVE reset_rows(_, _, _)
reset_rows(raw, field, y) ==
    IF ~raw.ok \/ y >= Len(field) THEN raw
    ELSE reset_rows(reset_row(raw, field[y + 1], y, 0), field, y + 1)

raw_field(field) == reset_rows([ok |-> TRUE, buf |-> EmptyBuffer], field, 0)

(***************************************************************************)
(* CCHandle._next_move_fn, lines 256-263.                                  *)
(***************************************************************************)
\* CCMove(): a zero-initialised structure.  placed and epoch stand for the
\* expected cells (which piece, on which board); written marks a structure
\* the engine filled in.
ZeroMove == [hold |-> FALSE, placed |-> 0, epoch |-> 0, written |-> FALSE]
\* CCPlanPlacement(): one zero-initialised element of the plan array.
ZeroPlacement == [written |-> FALSE, index |-> 0]
\* (CCPlanPlacement * plan_length)()
PlanArray(plan_length) == [i \in 1 .. plan_length |-> ZeroPlacement]
\* Slice, were the first n elements read through the raw pointer.
Slice_unclamped(plan, n) ==
    [i \in 1 .. n |-> IF i <= Len(plan) THEN plan[i] ELSE ZeroPlacement]
\* plan[0:n] of a ctypes array: the slice is clamped to the array's length.
\* n is the value of a c_uint32, never negative.
Slice(plan, n) == SubSeq(plan, 1, Min(n, Len(plan)))


(***************************************************************************)
(* State.                                                                  *)
(***************************************************************************)
VARIABLES
    handle,        \* CCHandle._handle: Live or None
    pc,            \* the host thread: "body", "blocked", "exited", "crashed"
    scoped,        \* the handle is used in a `with` statement
    destroyCalls,  \* number of cc_destroy_async calls made
    terminates,    \* number of terminate calls made, __exit__'s included
    nullCalls,     \* the cc_* functions that were called with a None handle
    raised,        \* the exception the step just taken raised, or None
    ret,           \* what poll_next_move / block_next_move returned in the
                   \* step just taken, or Nothing
    blockCap,      \* plan_length of the block_next_move the host is suspended in
    \* the engine behind the handle
    use_hold,      \* CCOptions.use_hold
    board,         \* field buffer, back-to-back flag, combo, placements made
    epoch,         \* number of resets the engine has carried out
    queue,         \* the piece queue
    held,          \* the held piece, or NoPiece
    request,       \* the outstanding request (its incoming garbage), or Nothing
    slot,          \* the move chosen and not yet handed out, or Nothing
    dead,          \* the engine found that it cannot survive
    bag,           \* the piece kinds left in the current 7-bag
    added,         \* number of pieces appended to the queue
    \* history, for the properties
    lastField,     \* the field of the last reset that reached the engine
    deadSeen,      \* DEAD was returned since launch or the last reset:
                   \* 0 never, 1 once, 2 more than once
    everAdded,     \* add_next_piece has been called
    touched,       \* since launch a reset has reached the engine or the
                   \* engine has resolved a request to a move
    owed,          \* request_next_move calls since launch or the last reset,
                   \* less the MOVE_PROVIDED returned since
    asked,         \* request_next_move was called since launch, the last
                   \* reset and the last MOVE_PROVIDED returned
    arg,           \* the arguments of the reset under test (reset specifications)
    main           \* the locals of the demo loop (demo specification), or Nothing

vars == <<handle, pc, scoped, destroyCalls, terminates, nullCalls, raised, ret, blockCap,
          use_hold, board, epoch, queue, held, bag, request, slot, dead, added,
          lastField, deadSeen, everAdded, touched, owed, asked, arg, main>>

hostVars == <<handle, pc, scoped, destroyCalls, terminates, nullCalls, blockCap>>
\* No poll_next_move or block_next_move returned, nothing was raised.
Quiet == ret' = Nothing /\ raised' = None
engineVars == <<use_hold, board, epoch, queue, held, bag, request, slot, dead,
                added>>
historyVars == <<lastField, deadSeen, everAdded, touched, owed, asked>>

(***************************************************************************)
(* The engine: launch.  "Launches a bot thread with a blank board, empty   *)
(* queue, and all seven pieces in the bag" (lines 178-179).                *)
(***************************************************************************)
BlankBoard == [field |-> EmptyBuffer, b2b |-> 0, combo |-> <<0, 0>>, placed |-> 0]

EngineLaunch ==
    /\ board = BlankBoard
    /\ epoch = 0
    /\ queue = <<>>
    /\ held = NoPiece
    /\ bag = CCPiece
    /\ request = Nothing
    /\ slot = Nothing
    /\ dead = FALSE
    /\ added = 0

(***************************************************************************)
(* The engine: the cc_* functions, as the interface describes them.  Each  *)
(* is an action on the engine's variables; the wrapper's methods below     *)
(* call them.                                                              *)
(***************************************************************************)
\* cc_destroy_async(handle): stops the engine's thread and frees the memory
\* of the bot (lines 188-191); nothing of the engine's state is left.
cc_destroy_async ==
    /\ destroyCalls' = destroyCalls + 1
    /\ board' = BlankBoard
    /\ epoch' = 0
    /\ queue' = <<>>
    /\ held' = NoPiece
    /\ bag' = CCPiece
    /\ request' = Nothing
    /\ slot' = Nothing
    /\ dead' = FALSE
    /\ added' = 0
    /\ UNCHANGED use_hold

\* cc_reset_async, were the undelivered move to survive the reset.
cc_reset_async_keeps(field, b2b, combo) ==
    /\ board' = [field |-> field, b2b |-> b2b, combo |-> combo, placed |-> 0]
    /\ epoch' = epoch + 1
    /\ request' = Nothing
    /\ dead' = FALSE
    /\ UNCHANGED <<use_hold, queue, held, bag, slot, added>>

\* cc_reset_async(handle, field, b2b, combo): replaces the board and throws
\* away previous computations (lines 203-207), the outstanding request and
\* the undelivered move included; the piece queue stays.
cc_reset_async(field, b2b, combo) ==
    /\ board' = [field |-> field, b2b |-> b2b, combo |-> combo, placed |-> 0]
    /\ epoch' = epoch + 1
    /\ request' = Nothing
    /\ slot' = Nothing
    /\ dead' = FALSE
    /\ UNCHANGED <<use_hold, queue, held, bag, added>>

\* cc_add_next_piece_async(handle, piece): "Adds a new piece to the end of
\* the queue" (line 223); the piece leaves the bag, an empty bag is refilled.
cc_add_next_piece_async(piece) ==
    /\ queue' = Append(queue, piece)
    /\ bag' = IF bag \ {piece} = {} THEN CCPiece ELSE bag \ {piece}
    /\ added' = added + 1
    /\ UNCHANGED <<use_hold, board, epoch, held, request, slot, dead>>

\* cc_request_next_move, were the engine to place a piece on the board as
\* soon as it is asked.
cc_request_next_move_places(incoming) ==
    /\ request' = [incoming |-> incoming]
    /\ board' = [board EXCEPT !.placed = @ + 1]
    /\ UNCHANGED <<use_hold, epoch, queue, held, bag, slot, dead, added>>

\* cc_request_next_move(handle, incoming): the most recent request stands.
cc_request_next_move(incoming) ==
    /\ request' = [incoming |-> incoming]
    /\ UNCHANGED <<use_hold, board, epoch, queue, held, bag, slot, dead, added>>

\* What cc_poll_next_move answers in the current state, for a plan buffer
\* plan_ptr of cap entries: the move chosen if there is one, else DEAD if the
\* engine cannot survive, else WAITING.  A move comes with the engine's plan:
\* the entries that fit the buffer, and the count the engine reports.
\* Nothing is written when no move is provided (lines 275-281).
EnginePlan(n) == [i \in 1 .. n |-> [written |-> TRUE, index |-> i]]
cc_poll_next_move(plan_ptr, cap) ==
    IF slot # Nothing
    THEN [status |-> CC_MOVE_PROVIDED, wroteMove |-> TRUE, move |-> slot.move,
          entries |-> IF plan_ptr = None THEN <<>>
                      ELSE EnginePlan(Min(slot.planLen, cap)),
          wroteCount |-> TRUE, count |-> slot.planLen]
    ELSE [status |-> IF dead THEN CC_BOT_DEAD ELSE CC_WAITING,
          wroteMove |-> FALSE, move |-> ZeroMove, entries |-> <<>>,
          wroteCount |-> FALSE, count |-> 0]

\* cc_block_next_move: "the same as cc_poll_next_move except when
\* cc_poll_next_move would return CC_WAITING it instead waits until the bot
\* has made a decision" (lines 286-287).  Resolved says that it returns.
Resolved == slot # Nothing \/ dead
cc_block_next_move(plan_ptr, cap) ==
    IF slot # Nothing
    THEN [status |-> CC_MOVE_PROVIDED, wroteMove |-> TRUE, move |-> slot.move,
          entries |-> IF plan_ptr = None THEN <<>>
                      ELSE EnginePlan(Min(slot.planLen, cap)),
          wroteCount |-> TRUE, count |-> slot.planLen]
    ELSE [status |-> CC_BOT_DEAD,
          wroteMove |-> FALSE, move |-> ZeroMove, entries |-> <<>>,
          wroteCount |-> FALSE, count |-> 0]

\* Handing out a move empties the slot.
EngineDeliver ==
    /\ slot' = Nothing
    /\ UNCHANGED <<use_hold, board, epoch, queue, held, bag, request, dead, added>>

(***************************************************************************)
(* The engine: its own steps, taken by its worker threads while the host   *)
(* runs or is suspended.                                                   *)
(***************************************************************************)
\* The engine can tell which piece it would place: with hold enabled and
\* nothing held yet it needs the piece behind the head (lines 238-242).
CanChoose ==
    IF use_hold /\ held = NoPiece THEN Len(queue) >= 2 ELSE Len(queue) >= 1

\* The lengths of the plan the engine favours: none, as many placements as
\* the largest buffer the host passes holds, and one more.
EnginePlans == {0, MaxCap, MaxCap + 1}

\* "Once a move is chosen, the bot will update its internal state to the
\* result of the piece being placed correctly and the move will become
\* available by calling cc_poll_next_move" (lines 247-248).
EngineChoose ==
    /\ destroyCalls = 0
    /\ request # Nothing /\ slot = Nothing /\ ~dead
    /\ CanChoose
    /\ board.placed < MaxMoves
    /\ \E hold \in (IF use_hold THEN BOOLEAN ELSE {FALSE}), planLen \in EnginePlans :
         LET placed == IF ~hold THEN queue[1]
                       ELSE IF held # NoPiece THEN held ELSE queue[2]
         IN  /\ slot' = [move |-> [hold |-> hold, placed |-> placed,
                                   epoch |-> epoch, written |-> TRUE],
                         planLen |-> planLen]
             /\ held' = IF hold THEN queue[1] ELSE held
             /\ queue' = IF hold /\ held = NoPiece THEN Tail(Tail(queue)) ELSE Tail(queue)
    /\ board' = [board EXCEPT !.placed = @ + 1]
    /\ request' = Nothing
    /\ UNCHANGED <<use_hold, epoch, bag, dead, added>>
    /\ Quiet
    /\ touched' = TRUE
    /\ UNCHANGED <<hostVars, lastField, deadSeen, everAdded, owed, asked, arg>>

\* The engine finds that it cannot survive.
EngineDie ==
    /\ destroyCalls = 0
    /\ ~dead
    /\ dead' = TRUE
    /\ UNCHANGED <<use_hold, board, epoch, queue, held, bag, request, slot, added>>
    /\ Quiet
    /\ UNCHANGED <<hostVars, historyVars, arg>>

(***************************************************************************)
(* CCHandle: the wrapper's methods.                                        *)
(***************************************************************************)
\* The host thread is free to call a method.
CanCall == pc \in {"body", "exited"}

\* A cc_* function called with handle None: ctypes passes a NULL pointer, the
\* library dereferences it and the process faults.
NullCall(fn) ==
    /\ nullCalls' = nullCalls \cup {fn}
    /\ pc' = "crashed"
    /\ Quiet
    /\ UNCHANGED <<handle, scoped, destroyCalls, terminates, blockCap>>
    /\ UNCHANGED <<engineVars, historyVars, arg>>

\* terminate_body, were `self._handle = None` left out.
terminate_body_keeps ==
    /\ terminates' = terminates + 1
    /\ IF handle # None
       THEN /\ cc_destroy_async
            /\ UNCHANGED handle
       ELSE UNCHANGED <<handle, destroyCalls, engineVars>>

\* The body of CCHandle.terminate (lines 192-194).
terminate_body ==
    /\ terminates' = terminates + 1
    /\ IF handle # None
       THEN /\ cc_destroy_async
            /\ handle' = None
       ELSE UNCHANGED <<handle, destroyCalls, engineVars>>

\* CCHandle.terminate
terminate ==
    /\ CanCall
    /\ terminate_body
    /\ Quiet
    /\ UNCHANGED <<pc, scoped, nullCalls, blockCap>>
    /\ UNCHANGED <<historyVars, arg>>

\* CCHandle.__exit__ at the end of the `with` block, the body having
\* completed normally.
ExitNormal ==
    /\ scoped /\ pc = "body"
    /\ terminate_body
    /\ pc' = "exited"
    /\ Quiet
    /\ UNCHANGED <<scoped, nullCalls, blockCap>>
    /\ UNCHANGED <<historyVars, arg>>

\* ExitError, were __exit__ to release the handle on a normal exit only.
ExitError_skips ==
    /\ scoped /\ pc = "body"
    /\ pc' = "exited"
    /\ raised' = "Error"
    /\ ret' = Nothing
    /\ UNCHANGED <<handle, destroyCalls, terminates, scoped, nullCalls, blockCap>>
    /\ UNCHANGED <<engineVars, historyVars, arg>>

\* CCHandle.__exit__ with an error raised in the body of the `with` block;
\* __exit__ returns None, so the error goes on propagating.
ExitError ==
    /\ scoped /\ pc = "body"
    /\ terminate_body
    /\ pc' = "exited"
    /\ raised' = "Error"
    /\ ret' = Nothing
    /\ UNCHANGED <<scoped, nullCalls, blockCap>>
    /\ UNCHANGED <<historyVars, arg>>

\* CCHandle.reset(field, b2b, combo), lines 216-220.
reset(field, b2b, combo) ==
    /\ CanCall
    /\ LET raw == raw_field(field) IN
       IF ~raw.ok
       THEN /\ raised' = "IndexError"
            /\ ret' = Nothing
            /\ UNCHANGED <<hostVars, engineVars, historyVars, arg>>
       ELSE IF handle = None
       THEN NullCall("cc_reset_async")
       ELSE /\ cc_reset_async(raw.buf, c_bool(b2b), c_uint32(combo))
            /\ lastField' = [field |-> field]
            /\ deadSeen' = 0
            /\ owed' = 0
            /\ asked' = FALSE
            /\ touched' = TRUE
            /\ Quiet
            /\ UNCHANGED <<hostVars, everAdded, arg>>

\* CCHandle.add_next_piece(piece), line 229.
add_next_piece(piece) ==
    /\ CanCall
    /\ IF handle = None
       THEN NullCall("cc_add_next_piece_async")
       ELSE /\ cc_add_next_piece_async(piece)
            /\ everAdded' = TRUE
            /\ Quiet
            /\ UNCHANGED <<hostVars, lastField, deadSeen, touched, owed, asked, arg>>

\* CCHandle.request_next_move(incoming), line 253.
request_next_move(incoming) ==
    /\ CanCall
    /\ IF handle = None
       THEN NullCall("cc_request_next_move")
       ELSE /\ cc_request_next_move(c_uint32(incoming))
            /\ owed' = Min(owed + 1, MaxOwed)
            /\ asked' = TRUE
            /\ Quiet
            /\ UNCHANGED <<hostVars, lastField, deadSeen, everAdded, touched, arg>>

\* fn(self._handle, byref(move), plan_ptr, byref(raw_plan_length)), line 262:
\* fn is COLD_CLEAR_LIB.cc_poll_next_move or COLD_CLEAR_LIB.cc_block_next_move.
CallFn(fn, plan_ptr, cap) ==
    IF fn = "cc_poll_next_move" THEN cc_poll_next_move(plan_ptr, cap)
    ELSE cc_block_next_move(plan_ptr, cap)

\* CCHandle._next_move_fn(fn, plan_length), lines 256-263.
next_move_fn(fn, plan_length) ==
    LET plan == PlanArray(plan_length)
        plan_ptr == IF plan_length > 0 THEN "byref" ELSE None
        \* plan_length is below 2^32: c_uint32 keeps it
        out == CallFn(fn, plan_ptr, plan_length)
        move == IF out.wroteMove THEN out.move ELSE ZeroMove
        written == [i \in 1 .. plan_length |->
                       IF i <= Len(out.entries) THEN out.entries[i] ELSE plan[i]]
        raw_plan_length == IF out.wroteCount THEN out.count ELSE plan_length
    IN  [status |-> out.status, move |-> move,
         plan |-> Slice(written, raw_plan_length),
         plan_ptr |-> plan_ptr, raw_plan_length |-> raw_plan_length]

\* The record of one return of poll_next_move / block_next_move: the call,
\* whether the host was suspended in it, the triple returned, and what
\* _next_move_fn passed to the engine and read back from it.
Returned(fn, plan_length, waited, r) ==
    [fn |-> fn, cap |-> plan_length, waited |-> waited,
     status |-> r.status, move |-> r.move, plan |-> r.plan,
     plan_ptr |-> r.plan_ptr, raw_plan_length |-> r.raw_plan_length]

\* deadSeen after a return with this status.
SeenAgain(status) ==
    IF status # DEAD THEN deadSeen ELSE IF deadSeen = 0 THEN 1 ELSE 2

\* The history after a return with this status: a MOVE_PROVIDED answers one
\* request.
Collected(status) ==
    /\ deadSeen' = SeenAgain(status)
    /\ owed' = IF status = MOVE_PROVIDED /\ owed > 0 THEN owed - 1 ELSE owed
    /\ asked' = (asked /\ status # MOVE_PROVIDED)

\* poll_next_move, were it to ask for the next move itself on every poll.
poll_next_move_asks(plan_length) ==
    /\ CanCall
    /\ IF handle = None
       THEN NullCall("cc_poll_next_move")
       ELSE LET r == next_move_fn("cc_poll_next_move", plan_length) IN
            /\ ret' = Returned("poll", plan_length, FALSE, r)
            /\ slot' = Nothing
            /\ request' = [incoming |-> <<0, 0>>]
            /\ UNCHANGED <<use_hold, board, epoch, queue, held, bag, dead, added>>
            /\ Collected(r.status)
            /\ raised' = None
            /\ UNCHANGED <<hostVars, lastField, everAdded, touched, arg>>

\* CCHandle.poll_next_move(plan_length), line 283.
poll_next_move(plan_length) ==
    /\ CanCall
    /\ IF handle = None
       THEN NullCall("cc_poll_next_move")
       ELSE LET r == next_move_fn("cc_poll_next_move", plan_length) IN
            /\ ret' = Returned("poll", plan_length, FALSE, r)
            /\ EngineDeliver
            /\ Collected(r.status)
            /\ raised' = None
            /\ UNCHANGED <<hostVars, lastField, everAdded, touched, arg>>

\* block_next_move, were it to pass cc_poll_next_move as line 283 does.
block_next_move_polls(plan_length) ==
    /\ CanCall
    /\ IF handle = None
       THEN NullCall("cc_block_next_move")
       ELSE LET r == next_move_fn("cc_poll_next_move", plan_length) IN
            /\ ret' = Returned("block", plan_length, FALSE, r)
            /\ EngineDeliver
            /\ Collected(r.status)
            /\ raised' = None
            /\ UNCHANGED <<hostVars, lastField, everAdded, touched, arg>>

\* block_next_move, were it not to forward plan_length.
block_next_move_noplan(plan_length) ==
    /\ CanCall
    /\ IF handle = None
       THEN NullCall("cc_block_next_move")
       ELSE IF Resolved
       THEN LET r == next_move_fn("cc_block_next_move", 0) IN
            /\ ret' = Returned("block", plan_length, FALSE, r)
            /\ EngineDeliver
            /\ Collected(r.status)
            /\ raised' = None
            /\ UNCHANGED <<hostVars, lastField, everAdded, touched, arg>>
       ELSE /\ pc' = "blocked"
            /\ blockCap' = plan_length
            /\ Quiet
            /\ UNCHANGED <<handle, scoped, destroyCalls, terminates, nullCalls>>
            /\ UNCHANGED <<engineVars, historyVars, arg>>

\* CCHandle.block_next_move(plan_length), line 292: the call returns at once
\* when the engine has an answer, else the host thread is suspended in it.
block_next_move(plan_length) ==
    /\ CanCall
    /\ IF handle = None
       THEN NullCall("cc_block_next_move")
       ELSE IF Resolved
       THEN LET r == next_move_fn("cc_block_next_move", plan_length) IN
            /\ ret' = Returned("block", plan_length, FALSE, r)
            /\ EngineDeliver
            /\ Collected(r.status)
            /\ raised' = None
            /\ UNCHANGED <<hostVars, lastField, everAdded, touched, arg>>
       ELSE /\ pc' = "blocked"
            /\ blockCap' = plan_length
            /\ Quiet
            /\ UNCHANGED <<handle, scoped, destroyCalls, terminates, nullCalls>>
            /\ UNCHANGED <<engineVars, historyVars, arg>>

\* The suspended block_next_move returns: the engine has made its decision.
BlockWake ==
    /\ pc = "blocked"
    /\ Resolved
    /\ LET r == next_move_fn("cc_block_next_move", blockCap) IN
       /\ ret' = Returned("block", blockCap, TRUE, r)
       /\ Collected(r.status)
    /\ EngineDeliver
    /\ pc' = "body"
    /\ blockCap' = 0
    /\ raised' = None
    /\ UNCHANGED <<handle, scoped, destroyCalls, terminates, nullCalls>>
    /\ UNCHANGED <<lastField, everAdded, touched, arg>>

(***************************************************************************)
(* The protocol specification: one host thread using one handle in a       *)
(* `with` statement, and the engine running beside it.                     *)
(***************************************************************************)
\* Inputs of the host's calls.
Garbage == << <<1, 1, 0, 1>> >>
ResetArgs ==
    { [field |-> <<>>, b2b |-> 0, combo |-> <<0, 0>>],
      [field |-> Garbage, b2b |-> 1, combo |-> <<0, 3>>] }
Incomings == { <<0, 0>>, <<0, 4>> }
\* plan_length: the default, and the largest capacity the host passes.
PlanLengths == {0, MaxCap}
\* The host appends bag-legal pieces only: one of the two lowest kinds left.
AddChoices ==
    { p \in bag : Cardinality({q \in bag : q < p}) < 2 }

\* The handle is made in a `with` statement: a handle used without one
\* behaves as this one does for as long as the block is not left.
Init ==
    /\ handle = Live
    /\ pc = "body"
    /\ scoped = TRUE
    /\ destroyCalls = 0
    /\ terminates = 0
    /\ nullCalls = {}
    /\ raised = None
    /\ ret = Nothing
    /\ blockCap = 0
    /\ use_hold \in BOOLEAN
    /\ EngineLaunch
    /\ lastField = Nothing
    /\ deadSeen = 0
    /\ everAdded = FALSE
    /\ touched = FALSE
    /\ owed = 0
    /\ asked = FALSE
    /\ arg = Nothing
    /\ main = Nothing

\* The demo loop is not running.
NoDemo == UNCHANGED main

Next ==
    \/ (terminates < MaxTerminates /\ terminate /\ NoDemo)
    \/ (ExitNormal /\ NoDemo)
    \/ (ExitError /\ NoDemo)
    \/ \E a \in ResetArgs :
          epoch < MaxResets /\ reset(a.field, a.b2b, a.combo) /\ NoDemo
    \/ \E p \in AddChoices : added < MaxAdds /\ add_next_piece(p) /\ NoDemo
    \/ \E n \in Incomings : request_next_move(n) /\ NoDemo
    \/ \E c \in PlanLengths : poll_next_move(c) /\ NoDemo
    \/ \E c \in PlanLengths : block_next_move(c) /\ NoDemo
    \/ (BlockWake /\ NoDemo)
    \/ (EngineChoose /\ NoDemo)
    \/ (EngineDie /\ NoDemo)

Spec == Init /\ [][Next]_vars

(***************************************************************************)
(* Properties of the protocol specification.                               *)
(***************************************************************************)
\* A step in which poll_next_move or block_next_move returns.
Returns == ret' # Nothing
\* What poll_next_move(plan_length) would return in the current state.
PollNow(plan_length) == next_move_fn("cc_poll_next_move", plan_length)

\* C1: over any sequence of terminate calls on one handle, the implicit one
\* of the `with` block included, cc_destroy_async is called at most once: a
\* terminate on a live handle destroys the engine and clears the stored
\* handle, a terminate on a cleared handle changes nothing and calls nothing.
C1_TerminateOnce ==
    [][ /\ destroyCalls' <= 1
        /\ terminates' # terminates =>
             IF handle # None
             THEN destroyCalls' = destroyCalls + 1 /\ handle' = None
             ELSE /\ UNCHANGED <<handle, destroyCalls, nullCalls, engineVars>>
                  /\ pc' # "crashed" ]_vars
C1_Witness ==
    scoped /\ pc = "exited" /\ terminates = 3 /\ destroyCalls = 1 /\ handle = None

\* C2: once the `with` block has exited, normally or by an error, and
\* whatever the state of the protocol was, the handle is cleared and the
\* engine has been destroyed exactly once.
C2_ScopedRelease ==
    pc = "exited" => handle = None /\ destroyCalls = 1
C2_Witness ==
    /\ pc = "exited" /\ raised = "Error" /\ handle = None /\ destroyCalls = 1
    /\ everAdded /\ deadSeen > 0

\* C3: no cc_* function is ever called with the None handle that terminate
\* leaves behind, and no call faults: calls after terminate are refused
\* before they reach the engine.
C3_RejectedAfterTerminate ==
    nullCalls = {} /\ pc # "crashed"

\* C4: once DEAD has been returned, every poll_next_move and block_next_move
\* that returns before the next reset returns DEAD.
C4_DeadStays ==
    [][ deadSeen > 0 /\ Returns => ret'.status = DEAD ]_vars
C4_Witness ==
    /\ deadSeen = 2 /\ ret # Nothing /\ ret.status = DEAD
    /\ added > 0 /\ request # Nothing

\* C5: block_next_move returns MOVE_PROVIDED or DEAD only, and returns only
\* from a state in which poll_next_move would not return WAITING; while the
\* host is suspended in it the engine's own steps stay enabled.
C5_BlockNeverWaiting ==
    /\ [][ Returns /\ ret'.fn = "block" =>
             /\ ret'.status \in {MOVE_PROVIDED, DEAD}
             /\ PollNow(ret'.cap).status # WAITING ]_vars
    /\ [](pc = "blocked" =>
             /\ ~dead => ENABLED EngineDie
             /\ (request # Nothing /\ slot = Nothing /\ ~dead /\ CanChoose
                 /\ board.placed < MaxMoves) => ENABLED EngineChoose)
C5_Witness ==
    ret # Nothing /\ ret.fn = "block" /\ ret.waited /\ ret.status = MOVE_PROVIDED

\* C6: block_next_move returns the triple poll_next_move would return in the
\* state it returns from, and leaves the engine as poll_next_move would.
C6_BlockEqualsPoll ==
    [][ Returns /\ ret'.fn = "block" =>
          /\ ret'.status = PollNow(ret'.cap).status
          /\ ret'.move = PollNow(ret'.cap).move
          /\ ret'.plan = PollNow(ret'.cap).plan
          /\ EngineDeliver ]_vars
C6_Witness ==
    /\ ret # Nothing /\ ret.fn = "block" /\ ret.status = MOVE_PROVIDED
    /\ ret.plan # <<>> /\ ret.move.hold

\* C7: the plan returned has at most plan_length entries whatever count the
\* engine reports, exactly the reported count when that is at most
\* plan_length, and none when plan_length = 0, when no buffer is passed.
C7_PlanWithinCapacity ==
    ret # Nothing =>
        /\ Len(ret.plan) <= ret.cap
        /\ ret.raw_plan_length <= ret.cap => Len(ret.plan) = ret.raw_plan_length
        /\ ret.cap = 0 => ret.plan = <<>> /\ ret.plan_ptr = None
C7_Witness ==
    /\ ret # Nothing /\ ret.status = MOVE_PROVIDED
    /\ ret.cap > 0 /\ ret.raw_plan_length > ret.cap

\* The buffer holds exactly the cells of field: cell x + 10 * y is the cell
\* at row y, column x, and a cell the field does not supply is empty.
ShowsField(buf, field) ==
    /\ \A y \in 0 .. Len(field) - 1 : \A x \in 0 .. Len(field[y + 1]) - 1 :
          Cell(buf, x + FieldWidth * y) = field[y + 1][x + 1]
    /\ \A i \in buf : \E y \in 0 .. Len(field) - 1 :
          i - FieldWidth * y \in 0 .. Len(field[y + 1]) - 1

\* C8: a move returned after a reset was chosen after that reset, on the
\* board whose field is the field the reset was given.
C8_ResetInvalidates ==
    [][ Returns /\ ret'.status = MOVE_PROVIDED =>
          /\ ret'.move.epoch = epoch
          /\ lastField # Nothing => ShowsField(board.field, lastField.field) ]_vars
C8_Witness ==
    /\ ret # Nothing /\ ret.status = MOVE_PROVIDED
    /\ epoch = 1 /\ ret.move.epoch = 1 /\ lastField = [field |-> Garbage]

\* C9: while add_next_piece has never been called, nothing returns
\* MOVE_PROVIDED, and poll_next_move returns WAITING unless the engine is dead.
C9_NoPieceNoMove ==
    (~everAdded /\ ret # Nothing) =>
        /\ ret.status # MOVE_PROVIDED
        /\ (ret.fn = "poll" /\ ~dead) => ret.status = WAITING
C9_Witness ==
    /\ ~everAdded /\ ret # Nothing /\ ret.fn = "poll" /\ ret.status = WAITING
    /\ request # Nothing /\ epoch > 0

\* No reset has reached the engine and the engine has resolved no request to
\* a move, on a handle that is still live.
AsLaunched == handle # None /\ ~touched

\* C11 as stated: from launch until the first reset or the first move, the
\* board is the blank board, the queue is empty and the bag is full.
C11_LaunchState_AsStated ==
    AsLaunched => board = BlankBoard /\ queue = <<>> /\ bag = CCPiece

\* C11, amended: from launch until the first reset or the first move the
\* board is the blank board; until the first add_next_piece the queue is empty
\* and the bag is full; a step that appends a piece or issues a request
\* leaves the board as it is.
C11_LaunchState ==
    /\ [](AsLaunched => board = BlankBoard)
    /\ []((handle # None /\ ~everAdded) => queue = <<>> /\ bag = CCPiece)
    /\ [][ (added' = added + 1 \/ (request' # Nothing /\ request' # request))
            => board' = board ]_vars
C11_Witness ==
    /\ AsLaunched /\ everAdded /\ queue # <<>> /\ bag # CCPiece
    /\ request # Nothing /\ board = BlankBoard

\* C13 as stated: MOVE_PROVIDED is returned only if request_next_move was
\* called since launch, since the last reset and since the last
\* MOVE_PROVIDED.
C13_OnlyWhenAsked_AsStated ==
    [][ (Returns /\ ret'.status = MOVE_PROVIDED) => asked ]_vars

\* C13, amended: MOVE_PROVIDED is returned only while a request issued since
\* launch or the last reset is still unanswered, so the moves provided never
\* outnumber the requests; with none unanswered poll_next_move returns
\* WAITING or DEAD.
C13_OnlyWhenOwed ==
    [][ Returns =>
          /\ ret'.status = MOVE_PROVIDED => owed > 0
          /\ (owed = 0 /\ ret'.fn = "poll") => ret'.status \in {WAITING, DEAD} ]_vars
C13_Witness ==
    /\ ret # Nothing /\ ret.fn = "poll" /\ ret.status = MOVE_PROVIDED
    /\ owed = 0 /\ ~asked /\ board.placed = 2 /\ epoch = 0

\* C14: the plan returned with a status other than MOVE_PROVIDED is empty,
\* whatever the plan capacity: the engine having written neither plan nor
\* count, no default-initialised placement is handed to the caller.
C14_PlanOnlyWithMove ==
    (ret # Nothing /\ ret.status # MOVE_PROVIDED) => ret.plan = <<>>

(***************************************************************************)
(* The reset specification: one reset on a fresh handle, its arguments     *)
(* drawn from ResetInputs.                                                 *)
(***************************************************************************)
\* A field of FieldHeight rows of FieldWidth cells whose filled cells are
\* the <<x, y>> of cells.
FullField(cells) ==
    [y \in 1 .. FieldHeight |->
        [x \in 1 .. FieldWidth |-> IF <<x - 1, y - 1>> \in cells THEN 1 ELSE 0]]
AllCells == (0 .. FieldWidth - 1) \X (0 .. FieldHeight - 1)
CellSets ==
    {{}, AllCells, {c \in AllCells : (c[1] + c[2]) % 2 = 0}}
    \cup {{<<x, y>>} : x \in {0, 4, FieldWidth - 1},
                       y \in {0, 1, 20, FieldHeight - 1}}
\* The first rows of a full field; a row of eleven cells; a 41st row.
LongRow == [y \in 1 .. FieldHeight |->
               IF y = 1 THEN [x \in 1 .. FieldWidth + 1 |-> 1]
               ELSE [x \in 1 .. FieldWidth |-> 0]]
TooTall == [y \in 1 .. FieldHeight + 1 |-> IF y <= FieldHeight THEN <<>> ELSE <<1>>]
\* A single row whose eleventh cell is the only one filled.
LoneLongRow == << [x \in 1 .. FieldWidth + 1 |-> IF x > FieldWidth THEN 1 ELSE 0] >>
ResetFields ==
    {FullField(cells) : cells \in CellSets}
    \cup {SubSeq(FullField(AllCells), 1, k) : k \in {0, 1, FieldHeight - 1}}
    \cup {LongRow, LoneLongRow, TooTall}
ResetCombos == { <<0, 0>>, <<0, 7>>, <<Limb - 1, Limb - 1>>, <<Limb, 0>>, <<Limb + 1, 5>> }
ResetInputs ==
    [field : ResetFields, b2b : {0, 1}, combo : ResetCombos]

InitReset ==
    /\ handle = Live
    /\ pc = "body"
    /\ scoped = FALSE
    /\ destroyCalls = 0
    /\ terminates = 0
    /\ nullCalls = {}
    /\ raised = None
    /\ ret = Nothing
    /\ blockCap = 0
    /\ use_hold = FALSE
    /\ EngineLaunch
    /\ lastField = Nothing
    /\ deadSeen = 0
    /\ everAdded = FALSE
    /\ touched = FALSE
    /\ owed = 0
    /\ asked = FALSE
    /\ arg \in ResetInputs
    /\ main = Nothing

ResetUnderTest ==
    /\ epoch = 0 /\ raised = None
    /\ reset(arg.field, arg.b2b, arg.combo)

NextReset == ResetUnderTest /\ NoDemo

SpecReset == InitReset /\ [][NextReset]_vars

\* At most FieldHeight rows, each of FieldWidth booleans.
RowsOfTen(field) ==
    /\ Len(field) <= FieldHeight
    /\ \A y \in 1 .. Len(field) :
          /\ Len(field[y]) = FieldWidth
          /\ \A x \in 1 .. FieldWidth : field[y][x] \in {0, 1}

Oversized(field) ==
    \/ Len(field) > FieldHeight
    \/ \E y \in 1 .. Len(field) : Len(field[y]) > FieldWidth

\* C15: a field with a row of more than 10 cells or with more than 40 rows
\* never reaches the engine, and a buffer cell of row y is filled only by a
\* cell the field supplies in its row y.
C15_RowsKeptApart ==
    /\ Oversized(arg.field) => epoch = 0 /\ board = BlankBoard
    /\ \A i \in board.field :
          /\ i \div FieldWidth < Len(arg.field)
          /\ \E x \in 1 .. Len(arg.field[(i \div FieldWidth) + 1]) :
                arg.field[(i \div FieldWidth) + 1][x] = 1

(***************************************************************************)
(* The demo specification: the loop of the `__main__` block (lines 309-344) *)
(* driving one handle in a `with` statement, the engine running beside it.  *)
(* main holds the loop's locals: the mirror of the queue, the pieces left   *)
(* in the shuffled bag, the held piece, the pieces appended so far, the     *)
(* piece and the result in hand, and the line the loop is at.  The field    *)
(* and the printing (lines 346-369) touch none of these.                    *)
(***************************************************************************)
QueueTarget == 5

\* bag.pop() after random.shuffle(bag): any of the pieces left; the model
\* draws among the two lowest kinds left.
PopChoices(left) ==
    { p \in left : Cardinality({q \in left : q < p}) < 2 }

\* A step of the host thread that calls nothing.
HostStep ==
    /\ pc = "body"
    /\ Quiet
    /\ UNCHANGED <<hostVars, engineVars, historyVars, arg>>

InitDemo ==
    /\ handle = Live
    /\ pc = "body"
    /\ scoped = TRUE
    /\ destroyCalls = 0
    /\ terminates = 0
    /\ nullCalls = {}
    /\ raised = None
    /\ ret = Nothing
    /\ blockCap = 0
    /\ use_hold \in BOOLEAN
    /\ EngineLaunch
    /\ lastField = Nothing
    /\ deadSeen = 0
    /\ everAdded = FALSE
    /\ touched = FALSE
    /\ owed = 0
    /\ asked = FALSE
    /\ arg = Nothing
    /\ main = [queue |-> <<>>, bag |-> CCPiece, hold |-> NoPiece,
               appended |-> <<>>, piece |-> NoPiece, got |-> Nothing,
               at |-> "fill"]

\* Lines 314-316 and 318: the first filling of the queue, then hold = None.
DemoFill ==
    /\ main # Nothing /\ main.at = "fill"
    /\ IF Len(main.queue) < QueueTarget
       THEN \E piece \in PopChoices(main.bag) :
              main' = [main EXCEPT !.bag = @ \ {piece},
                                   !.queue = Append(@, piece),
                                   !.appended = Append(@, piece),
                                   !.piece = piece,
                                   !.at = "fill_add"]
       ELSE main' = [main EXCEPT !.hold = NoPiece, !.at = "request"]
    /\ HostStep

\* Line 317: bot.add_next_piece(piece).
DemoFillAdd ==
    /\ main # Nothing /\ main.at = "fill_add"
    /\ pc = "body"
    /\ add_next_piece(main.piece)
    /\ main' = [main EXCEPT !.at = "fill"]

\* Lines 320-322: bot.request_next_move(0).
DemoRequest ==
    /\ main # Nothing /\ main.at = "request"
    /\ pc = "body"
    /\ request_next_move(<<0, 0>>)
    /\ main' = [main EXCEPT !.at = "block"]

\* Line 324: status, move, plan = bot.block_next_move(0), returning at once
\* or suspending the host.
DemoBlock ==
    /\ main # Nothing /\ main.at = "block"
    /\ pc = "body"
    /\ block_next_move(0)
    /\ main' = IF pc' = "blocked" THEN main
               ELSE [main EXCEPT !.got = ret', !.at = "check"]

\* Line 324, the suspended call returning.
DemoWake ==
    /\ main # Nothing /\ main.at = "block"
    /\ BlockWake
    /\ main' = [main EXCEPT !.got = ret', !.at = "check"]

\* The mirror after the hold handling of lines 329-336, were the first hold
\* to take one piece off the mirror as every other move does.
Mirror_pops_once(m, hold) ==
    IF hold
    THEN [m EXCEPT !.hold = Head(m.queue), !.queue = Tail(m.queue)]
    ELSE [m EXCEPT !.queue = Tail(m.queue)]

\* The mirror after the hold handling of lines 329-336.
Mirror(m, hold) ==
    IF hold
    THEN [m EXCEPT !.hold = Head(m.queue),
                   !.queue = IF m.hold = NoPiece THEN Tail(Tail(@)) ELSE Tail(@)]
    ELSE [m EXCEPT !.queue = Tail(m.queue)]

\* Lines 325-336: break on DEAD, else take the move's pieces off the mirror;
\* popleft on an empty deque raises IndexError.
DemoCheck ==
    /\ main # Nothing /\ main.at = "check"
    /\ pc = "body"
    /\ LET needs == IF main.got.move.hold /\ main.hold = NoPiece THEN 2 ELSE 1 IN
       IF main.got.status = DEAD
       THEN /\ main' = [main EXCEPT !.at = "break"]
            /\ raised' = None
       ELSE IF Len(main.queue) < needs
       THEN /\ main' = [main EXCEPT !.at = "raised"]
            /\ raised' = "IndexError"
       ELSE /\ main' = [Mirror(main, main.got.move.hold) EXCEPT !.at = "refill"]
            /\ raised' = None
    /\ ret' = Nothing
    /\ UNCHANGED <<hostVars, engineVars, historyVars, arg>>

\* The refilled bag, were it refilled while one piece is left in it.
Refilled_early(left) == IF Cardinality(left) <= 1 THEN CCPiece ELSE left

\* Lines 339-341: a new shuffled bag when the bag is empty.
Refilled(left) == IF left = {} THEN CCPiece ELSE left

\* Lines 338-343: the refill loop's test, and one piece popped and appended
\* to the mirror.
DemoRefill ==
    /\ main # Nothing /\ main.at = "refill"
    /\ IF Len(main.queue) < QueueTarget
       THEN \E piece \in PopChoices(Refilled(main.bag)) :
              main' = [main EXCEPT !.bag = Refilled(@) \ {piece},
                                   !.queue = Append(@, piece),
                                   !.appended = Append(@, piece),
                                   !.piece = piece,
                                   !.at = "refill_add"]
       ELSE main' = [main EXCEPT !.at = "request"]
    /\ HostStep

\* Line 344: bot.add_next_piece(piece).
DemoRefillAdd ==
    /\ main # Nothing /\ main.at = "refill_add"
    /\ pc = "body"
    /\ add_next_piece(main.piece)
    /\ main' = [main EXCEPT !.at = "refill"]

\* The `with` block left by the break of line 327 or by the IndexError.
DemoExit ==
    /\ main # Nothing
    /\ \/ main.at = "break" /\ ExitNormal
       \/ main.at = "raised" /\ ExitError
    /\ main' = [main EXCEPT !.at = "done"]

NextDemo ==
    \/ DemoFill
    \/ DemoFillAdd
    \/ DemoRequest
    \/ DemoBlock
    \/ DemoWake
    \/ DemoCheck
    \/ DemoRefill
    \/ DemoRefillAdd
    \/ DemoExit
    \/ (EngineChoose /\ NoDemo)
    \/ (EngineDie /\ NoDemo)

SpecDemo == InitDemo /\ [][NextDemo]_vars

(***************************************************************************)
(* Properties of the demo specification.                                   *)
(***************************************************************************)
\* C12: a move takes one piece off the head of the engine's queue, two on the
\* first hold: without hold the head is placed; with hold the head becomes
\* the held piece and the piece held before, or on the first hold the second
\* piece, is placed.  The demo loop takes the same pieces off its mirror, so
\* that whenever it is about to request a move its mirror and its hold are
\* the engine's queue and held piece.
C12_QueueConsumption ==
    /\ [][ (slot = Nothing /\ slot' # Nothing) =>
             LET m == slot'.move IN
             /\ ~m.hold =>
                  queue' = Tail(queue) /\ m.placed = Head(queue) /\ held' = held
             /\ (m.hold /\ held # NoPiece) =>
                  queue' = Tail(queue) /\ held' = Head(queue) /\ m.placed = held
             /\ (m.hold /\ held = NoPiece) =>
                  /\ queue' = Tail(Tail(queue))
                  /\ held' = Head(queue) /\ m.placed = queue[2] ]_vars
    /\ [][ (main.at = "check" /\ main'.at = "refill") =>
             Len(main'.queue) = Len(main.queue)
                 - (IF main.got.move.hold /\ main.hold = NoPiece THEN 2 ELSE 1) ]_vars
    /\ [](main.at = "request" => main.queue = queue /\ main.hold = held)
C12_Witness ==
    /\ main.at = "request" /\ board.placed = 2
    /\ main.hold # NoPiece /\ main.hold = held
    /\ Len(main.appended) = 8 /\ main.queue = queue /\ Len(queue) = QueueTarget

\* The pieces of seq, split into consecutive groups of 7 from the first one,
\* hold no kind twice in a group.
BagLegal(seq) ==
    \A i, j \in 1 .. Len(seq) :
        (i < j /\ (i - 1) \div 7 = (j - 1) \div 7) => seq[i] # seq[j]

\* C16: the pieces the demo loop has appended are bag-legal after every
\* step, a complete group holding all 7 kinds; the piece add_next_piece
\* hands to the engine is the one just appended; and the mirror holds 5
\* pieces whenever request_next_move is called.
C16_BagLegal ==
    /\ [](BagLegal(main.appended))
    /\ [](Len(main.appended) >= 7 =>
             {main.appended[i] : i \in 1 .. 7} = CCPiece)
    /\ [][ added' = added + 1 =>
             /\ Len(main.appended) = added'
             /\ queue'[Len(queue')] = main.appended[added'] ]_vars
    /\ [][ (main.at = "request" /\ main'.at = "block") =>
             Len(main.queue) = QueueTarget ]_vars
C16_Witness ==
    /\ main.at = "block" /\ added = 8 /\ Len(main.appended) = 8
    /\ main.appended[8] \in {main.appended[i] : i \in 1 .. 7}
    /\ Len(main.queue) = QueueTarget

====
